---- MODULE Spec2Model ----
(***************************************************************************)
(* A model of satella's CacheDict                                          *)
(* (satella/coding/structures/dictionaries/cache_dict.py) together with    *)
(* the silence_excs context manager it relies on                           *)
(* (satella/coding/recast_exceptions.py), and of IDAllocator,              *)
(* IntervalTerminableThread and LinkfailMetric, each under a specification *)
(* of its own.                                                             *)
(*                                                                         *)
(* One caller thread uses the mapping; the value_getter runs on the        *)
(* executor.  A handler is one step, except where it hands work to the     *)
(* executor: a blocking read is split at future.result(), a stale read is  *)
(* split between schedule_a_fetch and the final self.data[key], because    *)
(* the done-callback can run in that window (inline, when the future is    *)
(* already done at add_done_callback, or on the worker thread).            *)
(***************************************************************************)
EXTENDS Integers, FiniteSets, Sequences, TLC

(* ------------------------------ bounds -------------------------------- *)
MaxTime == 3
MaxCustom == 1
MaxPending == 2
MaxInterval == 1
MaxInt == 9
MaxTaken == 4
MaxLoops == 2
MaxReports == 7

(* ------------------- the configuration under study -------------------- *)
\* CacheDict(stale_interval=1, expiration_interval=2, ...), with
\* cache_failures_interval either left at None or set to 1
stale_interval_arg == 1
expiration_interval_arg == 2
failures_interval == 1

(* ----------------------------- universes ------------------------------ *)
Keys == {"k1", "k2"}
Values == {"v1", "v2"}

NoVal == "absent"
NoTs == -1
None == -1

\* what value_getter(key) can do: return a value, raise KeyError, raise
\* anything else
GetterResults == Values \cup {"KeyError", "OtherError"}

VARIABLES
    data,                    \* self.data
    timestamp_data,          \* self.timestamp_data
    cache_missed,            \* self.cache_missed
    stale_interval,          \* self.stale_interval
    expiration_interval,     \* self.expiration_interval
    cache_failures_interval, \* self.cache_failures_interval (None if unset)
    time_getter,             \* "monotonic" (the default) or "custom"
    monotonic,               \* the value time.monotonic() returns
    custom_clock,            \* the value a custom time_getter returns
    pc,                      \* where the caller is: idle, blocked, stale
    reading,                 \* the read in progress
    pending,                 \* background fetches submitted and not done
    ev,                      \* the step just taken and its outcome
    thr                      \* threads inside __setitem__ or a done-callback,
                             \* statement by statement

\* IDAllocator
VARIABLES
    start_at,                \* self.start_at
    ints_allocated,          \* self.ints_allocated
    free_ints,               \* self.free_ints
    bound,                   \* self.bound
    held,                    \* the ints the callers hold: returned by
                             \* allocate_int or marked as allocated, and not
                             \* marked as free since
    ida_ev                   \* the last call and its outcome

\* IntervalTerminableThread
VARIABLES
    itt_pc,                  \* where the thread is in run()
    terminating,             \* self._terminating
    slept,                   \* t of safe_sleep
    time_to_sleep,           \* time_to_sleep of run()
    cleanup_calls,           \* how often cleanup() was called
    loops                    \* how often loop() was called

\* LinkfailMetric
VARIABLES
    working,                 \* self.working
    consecutive_failures,    \* self.consecutive_failures
    consecutive_successes,   \* self.consecutive_successes
    history,                 \* the reports made for each address, in order
    lf_ev                    \* the last report and the callback it invoked

cache_vars == <<data, timestamp_data, cache_missed, stale_interval,
                expiration_interval, cache_failures_interval, time_getter,
                monotonic, custom_clock, pc, reading, pending, ev, thr>>
ida_vars == <<start_at, ints_allocated, free_ints, bound, held, ida_ev>>
itt_vars == <<itt_pc, terminating, slept, time_to_sleep, cleanup_calls,
              loops>>
lf_vars == <<working, consecutive_failures, consecutive_successes, history,
             lf_ev>>
others == <<ida_vars, itt_vars, lf_vars>>

vars == <<cache_vars, others>>

config == <<stale_interval, expiration_interval, cache_failures_interval,
            time_getter>>
store == <<data, timestamp_data, cache_missed>>

(* ------------------------- recast_exceptions -------------------------- *)
\* rethrow_as.__exit__ with mapping [((KeyError,), None)]: exc_type is the
\* exception of the body ("none" when the body raised nothing).  The result
\* is the exception that leaves the with statement.
rethrow_as_exit(exc_type) ==
    IF exc_type = "none"
    THEN "TypeError"          \* issubclass(None, (KeyError,)) raises
    ELSE IF exc_type = "KeyError"
         THEN "none"          \* to is None: return True
         ELSE exc_type        \* falls out of the loop: not suppressed

silence_excs(exc_type) == rethrow_as_exit(exc_type)

\* what the body of a with silence_excs(KeyError) block, or a function
\* decorated with it, can do: return ("none") or raise
BodyOutcomes == {"none", "KeyError", "OtherError", "TypeError"}

(* ------------------------------ CacheDict ----------------------------- *)
\* an assert that also rejects stale_interval == expiration_interval
init_assert_strict(stale, expiration) == stale < expiration

\* the assert of CacheDict.__init__
init_assert(stale, expiration) == stale <= expiration

\* the names an instance of CacheDict answers to: the methods of the class
\* and the mixin methods of typing.Mapping
Methods == {"__len__", "__iter__", "__init__", "get_value_block",
            "_on_failure", "schedule_a_fetch", "try_delete", "__getitem__",
            "__delitem__", "__setitem__", "__contains__", "__eq__", "__ne__",
            "keys", "items", "values", "get"}

\* cache.name(): AttributeError when the class has no such method
call_method(name) == IF name \in Methods THEN "none" ELSE "AttributeError"

cache_failures == cache_failures_interval # None

now_getter == IF time_getter = "custom" THEN custom_clock ELSE monotonic

Store(d, t, m) == [data |-> d, ts |-> t, missed |-> m]
Cur == Store(data, timestamp_data, cache_missed)

\* a size that counts every key with a timestamp
len_of_timestamps(st) == Cardinality({k \in Keys : st.ts[k] # NoTs})

\* CacheDict.__len__: len(self.data)
len(st) == Cardinality({k \in Keys : st.data[k] # NoVal})

\* CacheDict.__iter__: the keys of self.data
iter(st) == {k \in Keys : st.data[k] # NoVal}

\* __setitem__ without the cache_missed.remove(key)
setitem_keeps_miss(st, key, value, now) ==
    [st  |-> Store([st.data EXCEPT ![key] = value],
                   [st.ts EXCEPT ![key] = now],
                   st.missed),
     exc |-> "none"]

\* CacheDict.__setitem__
setitem(st, key, value, now) ==
    [st  |-> Store([st.data EXCEPT ![key] = value],
                   [st.ts EXCEPT ![key] = now],
                   st.missed \ {key}),
     exc |-> silence_excs(IF key \in st.missed THEN "none" ELSE "KeyError")]

\* __delitem__ without the del self.timestamp_data[key]
delitem_keeps_timestamp(st, key) ==
    IF st.data[key] = NoVal
    THEN [st |-> st, exc |-> "KeyError"]
    ELSE [st  |-> Store([st.data EXCEPT ![key] = NoVal], st.ts,
                        st.missed \ {key}),
          exc |-> silence_excs(IF key \in st.missed THEN "none"
                                                     ELSE "KeyError")]

\* CacheDict.__delitem__
delitem(st, key) ==
    IF st.data[key] = NoVal
    THEN [st |-> st, exc |-> "KeyError"]
    ELSE IF st.ts[key] = NoTs
         THEN [st  |-> Store([st.data EXCEPT ![key] = NoVal], st.ts,
                             st.missed),
               exc |-> "KeyError"]
         ELSE [st  |-> Store([st.data EXCEPT ![key] = NoVal],
                             [st.ts EXCEPT ![key] = NoTs],
                             st.missed \ {key}),
               exc |-> silence_excs(IF key \in st.missed THEN "none"
                                                          ELSE "KeyError")]

\* CacheDict.try_delete: __delitem__ under the silence_excs decorator
try_delete(st, key) ==
    LET r == delitem(st, key)
    IN  [st |-> r.st, exc |-> silence_excs(r.exc)]

\* _on_failure that records the miss whether or not cache_failures is set
on_failure_always(st, key, now) ==
    [st  |-> Store([st.data EXCEPT ![key] = NoVal],
                   [st.ts EXCEPT ![key] = now],
                   st.missed \cup {key}),
     exc |-> "none"]

\* CacheDict._on_failure
on_failure(st, key, now) ==
    IF ~cache_failures
    THEN [st |-> st, exc |-> "none"]
    ELSE LET removed == Store([st.data EXCEPT ![key] = NoVal], st.ts,
                              st.missed)
             exc == silence_excs(IF st.data[key] = NoVal THEN "KeyError"
                                                       ELSE "none")
         IN  IF exc # "none"
             THEN [st |-> removed, exc |-> exc]
             ELSE [st  |-> Store(removed.data,
                                 [removed.ts EXCEPT ![key] = now],
                                 removed.missed \cup {key}),
                   exc |-> "none"]

\* the except KeyError branch shared by get_value_block and
\* on_done_callback: try_delete, then _on_failure
handle_KeyError(st, key, now) ==
    LET d == try_delete(st, key)
    IN  IF d.exc # "none" THEN d ELSE on_failure(d.st, key, now)

\* get_value_block with a bare except where the code has except KeyError
get_value_block_except_all(st, key, res, now) ==
    IF res \in {"KeyError", "OtherError"}
    THEN LET h == handle_KeyError(st, key, now)
         IN  [st |-> h.st, val |-> NoVal,
              exc |-> IF h.exc # "none" THEN h.exc ELSE res]
    ELSE LET s == setitem(st, key, res, now)
         IN  [st |-> s.st, exc |-> s.exc,
              val |-> IF s.exc = "none" THEN res ELSE NoVal]

\* on_done_callback with a bare except where the code has except KeyError
on_done_callback_except_all(st, key, res, now) ==
    IF res \in {"KeyError", "OtherError"}
    THEN handle_KeyError(st, key, now)
    ELSE setitem(st, key, res, now)

\* CacheDict.get_value_block from future.result() on: res is what the
\* value_getter did.  val is the value returned when exc is "none".
get_value_block(st, key, res, now) ==
    IF res = "KeyError"
    THEN LET h == handle_KeyError(st, key, now)
         IN  [st |-> h.st, val |-> NoVal,
              exc |-> IF h.exc # "none" THEN h.exc ELSE "KeyError"]
    ELSE IF res = "OtherError"
         THEN [st |-> st, exc |-> "OtherError", val |-> NoVal]
         ELSE LET s == setitem(st, key, res, now)
              IN  [st |-> s.st, exc |-> s.exc,
                   val |-> IF s.exc = "none" THEN res ELSE NoVal]

\* schedule_a_fetch.on_done_callback: exc is what escapes the callback (the
\* executor logs it and carries on)
on_done_callback(st, key, res, now) ==
    IF res = "KeyError"
    THEN handle_KeyError(st, key, now)
    ELSE IF res = "OtherError"
         THEN [st |-> st, exc |-> "OtherError"]
         ELSE setitem(st, key, res, now)

\* __getitem__ with >= where the code compares the age of an entry with >
getitem_branch_inclusive(st, key, now) ==
    IF st.data[key] = NoVal /\ key \notin st.missed
    THEN "MISSING"
    ELSE IF st.ts[key] = NoTs
         THEN "NO_TIMESTAMP"
         ELSE IF key \in st.missed
              THEN IF cache_failures_interval = None
                   THEN "NO_INTERVAL"
                   ELSE IF now - st.ts[key] > cache_failures_interval
                        THEN "MISS_RETRY"
                        ELSE "CACHED_MISS"
              ELSE IF now - st.ts[key] >= expiration_interval
                   THEN "EXPIRED"
                   ELSE IF now - st.ts[key] >= stale_interval
                        THEN "STALE"
                        ELSE "FRESH"

\* __getitem__ that refreshes in the background on every read served from
\* memory
getitem_branch_always_refresh(st, key, now) ==
    IF st.data[key] = NoVal /\ key \notin st.missed
    THEN "MISSING"
    ELSE IF st.ts[key] = NoTs
         THEN "NO_TIMESTAMP"
         ELSE IF key \in st.missed
              THEN IF cache_failures_interval = None
                   THEN "NO_INTERVAL"
                   ELSE IF now - st.ts[key] > cache_failures_interval
                        THEN "MISS_RETRY"
                        ELSE "CACHED_MISS"
              ELSE IF now - st.ts[key] > expiration_interval
                   THEN "EXPIRED"
                   ELSE "STALE"

\* the branch CacheDict.__getitem__ takes for key when time.monotonic()
\* returns now
getitem_branch(st, key, now) ==
    IF st.data[key] = NoVal /\ key \notin st.missed
    THEN "MISSING"
    ELSE IF st.ts[key] = NoTs
         THEN "NO_TIMESTAMP"
         ELSE IF key \in st.missed
              THEN IF cache_failures_interval = None
                   THEN "NO_INTERVAL"
                   ELSE IF now - st.ts[key] > cache_failures_interval
                        THEN "MISS_RETRY"
                        ELSE "CACHED_MISS"
              ELSE IF now - st.ts[key] > expiration_interval
                   THEN "EXPIRED"
                   ELSE IF now - st.ts[key] > stale_interval
                        THEN "STALE"
                        ELSE "FRESH"

\* __getitem__ from timestamp = self.timestamp_data[key] on, for a thread
\* that has passed the presence test of line 119: the branch it takes when
\* time.monotonic() returns now
getitem_after_check(st, key, now) ==
    IF st.ts[key] = NoTs
    THEN "NO_TIMESTAMP"
    ELSE IF key \in st.missed
         THEN IF cache_failures_interval = None
              THEN "NO_INTERVAL"
              ELSE IF now - st.ts[key] > cache_failures_interval
                   THEN "MISS_RETRY"
                   ELSE "CACHED_MISS"
         ELSE IF now - st.ts[key] > expiration_interval
              THEN "EXPIRED"
              ELSE IF now - st.ts[key] > stale_interval
                   THEN "STALE"
                   ELSE "FRESH"

\* a __getitem__ that calls get_value_block on the stale branch as well
BlockingBranches_with_stale == {"MISSING", "MISS_RETRY", "EXPIRED", "STALE"}

\* the branches of __getitem__ that call get_value_block
BlockingBranches == {"MISSING", "MISS_RETRY", "EXPIRED"}

(* ------------------- the other objects, untouched --------------------- *)
Addresses == {0, 1}

\* IDAllocator(): nothing allocated
IDAIdle ==
    /\ start_at = 0
    /\ ints_allocated = {}
    /\ free_ints = {}
    /\ bound = 0
    /\ held = {}
    /\ ida_ev = [op |-> "init", ret |-> None, exc |-> "none"]

\* IntervalTerminableThread(seconds): constructed, not started
ITTIdle ==
    /\ itt_pc = "created"
    /\ terminating = FALSE
    /\ slept = 0
    /\ time_to_sleep = 0
    /\ cleanup_calls = 0
    /\ loops = 0

\* LinkfailMetric(...): the defaultdicts give True and 0 for every address
LFIdle ==
    /\ working = [a \in Addresses |-> TRUE]
    /\ consecutive_failures = [a \in Addresses |-> 0]
    /\ consecutive_successes = [a \in Addresses |-> 0]
    /\ history = [a \in Addresses |-> <<>>]
    /\ lf_ev = [address |-> None, success |-> TRUE, callback |-> "none"]

OthersIdle == IDAIdle /\ ITTIdle /\ LFIdle

(* ------------------------------- state -------------------------------- *)
\* the threads of the statement-level specification, and a thread that is
\* in no operation
Threads == {"t1", "t2"}
Resting == [op |-> "-", at |-> "rest", key |-> "-", val |-> NoVal,
            ts |-> NoTs, exc |-> "none"]

Idle == [key |-> "-", began |-> NoVal, t0 |-> NoTs, branch |-> "-"]

\* op: the step; key: its key; branch: the branch of __getitem__ the read
\* took; res: what the value_getter did (for a completed fetch); exc: the
\* exception the step raised, "none" if it returned, "waiting" or
\* "scheduled" if the read has not finished; val: the value returned (for
\* __setitem__, the value given)
Event(op, key, branch, res, exc, val) ==
    [op |-> op, key |-> key, branch |-> branch, res |-> res, exc |-> exc,
     val |-> val]

NumPending == pending["k1"] + pending["k2"]

\* fetches handed to the executor and not completed: the background ones
\* and the one a blocked read waits for
InFlight == NumPending + (IF pc = "blocked" THEN 1 ELSE 0)

\* CacheDict.__init__: the assert admits only stale_interval <=
\* expiration_interval
Init ==
    /\ data = [k \in Keys |-> NoVal]
    /\ timestamp_data = [k \in Keys |-> NoTs]
    /\ cache_missed = {}
    /\ init_assert(stale_interval_arg, expiration_interval_arg)
    /\ stale_interval = stale_interval_arg
    /\ expiration_interval = expiration_interval_arg
    /\ cache_failures_interval \in {None, failures_interval}
    /\ time_getter \in {"monotonic", "custom"}
    /\ monotonic = 0
    /\ custom_clock = 0
    /\ pc = "idle"
    /\ reading = Idle
    /\ pending = [k \in Keys |-> 0]
    /\ ev = Event("init", "-", "-", "-", "none", NoVal)
    /\ thr = [t \in Threads |-> Resting]
    /\ OthersIdle

Install(st) ==
    /\ data' = st.data
    /\ timestamp_data' = st.ts
    /\ cache_missed' = st.missed

(* ------------------------------ actions ------------------------------- *)
\* time.monotonic() moves on
Tick ==
    /\ monotonic < MaxTime
    /\ monotonic' = monotonic + 1
    /\ ev' = Event("tick", "-", "-", "-", "none", NoVal)
    /\ UNCHANGED <<store, config, thr, custom_clock, pc, reading, pending>>
    /\ UNCHANGED others

\* the custom time_getter moves on
TickCustom ==
    /\ time_getter = "custom"
    /\ custom_clock < MaxCustom
    /\ custom_clock' = custom_clock + 1
    /\ ev' = Event("tick_custom", "-", "-", "-", "none", NoVal)
    /\ UNCHANGED <<store, config, thr, monotonic, pc, reading, pending>>
    /\ UNCHANGED others

\* cache[key] = value
SetItem(key, value) ==
    /\ pc = "idle"
    /\ LET r == setitem(Cur, key, value, now_getter)
       IN  /\ Install(r.st)
           /\ ev' = Event("setitem", key, "-", "-", r.exc, value)
    /\ UNCHANGED <<config, thr, monotonic, custom_clock, pc, reading, pending>>
    /\ UNCHANGED others

\* del cache[key]
DelItem(key) ==
    /\ pc = "idle"
    /\ LET r == delitem(Cur, key)
       IN  /\ Install(r.st)
           /\ ev' = Event("delitem", key, "-", "-", r.exc, NoVal)
    /\ UNCHANGED <<config, thr, monotonic, custom_clock, pc, reading, pending>>
    /\ UNCHANGED others

\* len(cache)
LenCache ==
    /\ pc = "idle"
    /\ ev' = Event("len", "-", "-", "-", "none", len(Cur))
    /\ UNCHANGED <<store, config, thr, monotonic, custom_clock, pc, reading,
                   pending>>
    /\ UNCHANGED others

\* cache.keys(), list(cache): what the iterator yields
IterCache ==
    /\ pc = "idle"
    /\ ev' = Event("iter", "-", "-", "-", "none", iter(Cur))
    /\ UNCHANGED <<store, config, thr, monotonic, custom_clock, pc, reading,
                   pending>>
    /\ UNCHANGED others

\* cache[key], up to the point where it returns, raises, blocks in
\* future.result() or has called schedule_a_fetch
GetItem(key) ==
    /\ pc = "idle"
    /\ LET b == getitem_branch(Cur, key, monotonic)
           rd == [key |-> key, began |-> data[key], t0 |-> now_getter,
                  branch |-> b]
       IN  CASE b \in BlockingBranches ->
                  /\ pc' = "blocked"
                  /\ reading' = rd
                  /\ ev' = Event("getitem", key, b, "-", "waiting", NoVal)
                  /\ UNCHANGED pending
             [] b = "STALE" ->
                  /\ NumPending < MaxPending
                  /\ pending' = [pending EXCEPT ![key] = @ + 1]
                  /\ pc' = "stale"
                  /\ reading' = rd
                  /\ ev' = Event("getitem", key, b, "-", "scheduled", NoVal)
             [] b = "FRESH" ->
                  /\ ev' = Event("getitem", key, b, "-", "none", data[key])
                  /\ UNCHANGED <<pc, reading, pending>>
             [] b = "CACHED_MISS" ->
                  /\ ev' = Event("getitem", key, b, "-", "KeyError", NoVal)
                  /\ UNCHANGED <<pc, reading, pending>>
             [] b = "NO_TIMESTAMP" ->
                  /\ ev' = Event("getitem", key, b, "-", "KeyError", NoVal)
                  /\ UNCHANGED <<pc, reading, pending>>
             [] b = "NO_INTERVAL" ->
                  /\ ev' = Event("getitem", key, b, "-", "TypeError", NoVal)
                  /\ UNCHANGED <<pc, reading, pending>>
    /\ UNCHANGED <<store, config, thr, monotonic, custom_clock>>
    /\ UNCHANGED others

\* the fetch a blocked read waits for completes with res; the read goes on
\* in get_value_block and returns or raises
FetchResult(res) ==
    /\ pc = "blocked"
    /\ LET r == get_value_block(Cur, reading.key, res, now_getter)
       IN  /\ Install(r.st)
           /\ ev' = Event("result", reading.key, reading.branch, res, r.exc,
                          r.val)
    /\ pc' = "idle"
    /\ reading' = Idle
    /\ UNCHANGED <<config, thr, monotonic, custom_clock, pending>>
    /\ UNCHANGED others

\* a background fetch for key completes with res and on_done_callback runs
BgDone(key, res) ==
    /\ pending[key] > 0
    /\ pending' = [pending EXCEPT ![key] = @ - 1]
    /\ LET r == on_done_callback(Cur, key, res, now_getter)
       IN  /\ Install(r.st)
           /\ ev' = Event("on_done_callback", key, "-", res, r.exc, NoVal)
    /\ UNCHANGED <<config, thr, monotonic, custom_clock, pc, reading>>
    /\ UNCHANGED others

\* the stale read finishes: return self.data[key]
ReturnStale ==
    /\ pc = "stale"
    /\ ev' = Event("return", reading.key, reading.branch, "-",
                   IF data[reading.key] = NoVal THEN "KeyError" ELSE "none",
                   data[reading.key])
    /\ pc' = "idle"
    /\ reading' = Idle
    /\ UNCHANGED <<store, config, thr, monotonic, custom_clock, pending>>
    /\ UNCHANGED others

Next ==
    \/ Tick
    \/ TickCustom
    \/ \E key \in Keys, value \in Values : SetItem(key, value)
    \/ \E key \in Keys : DelItem(key)
    \/ LenCache
    \/ IterCache
    \/ \E key \in Keys : GetItem(key)
    \/ \E res \in GetterResults : FetchResult(res)
    \/ \E key \in Keys, res \in GetterResults : BgDone(key, res)
    \/ ReturnStale

Spec == Init /\ [][Next]_vars

(* --------------------- reads under a fair executor -------------------- *)
\* a cache with the default time_getter, read and written by one caller
InitFair == Init /\ time_getter = "monotonic"

NextFair ==
    \/ Tick
    \/ \E key \in Keys, value \in Values : SetItem(key, value)
    \/ \E key \in Keys : DelItem(key)
    \/ \E key \in Keys : GetItem(key)
    \/ \E res \in GetterResults : FetchResult(res)
    \/ \E key \in Keys, res \in GetterResults : BgDone(key, res)
    \/ ReturnStale

\* the executor runs every task it was given and the value_getter returns
\* or raises: the future a blocked read waits in future.result() for is
\* eventually done
SpecFair ==
    /\ InitFair
    /\ [][NextFair]_vars
    /\ WF_vars(\E res \in GetterResults : FetchResult(res))

(* ------------------- construction and the life cycle ------------------ *)
\* no CacheDict exists yet
InitNew ==
    /\ data = [k \in Keys |-> NoVal]
    /\ timestamp_data = [k \in Keys |-> NoTs]
    /\ cache_missed = {}
    /\ stale_interval = None
    /\ expiration_interval = None
    /\ cache_failures_interval = None
    /\ time_getter = "monotonic"
    /\ monotonic = 0
    /\ custom_clock = 0
    /\ pc = "new"
    /\ reading = Idle
    /\ pending = [k \in Keys |-> 0]
    /\ ev = Event("new", "-", "-", "-", "none", NoVal)
    /\ thr = [t \in Threads |-> Resting]
    /\ OthersIdle

\* CacheDict(stale, expiration, value_getter, default_time_getter=getter):
\* the event keeps the intervals asked for
Construct(stale, expiration, getter) ==
    /\ pc = "new"
    /\ IF init_assert(stale, expiration)
       THEN /\ stale_interval' = stale
            /\ expiration_interval' = expiration
            /\ time_getter' = getter
            /\ pc' = "idle"
            /\ ev' = Event("init", "-", "-", "-", "none",
                           <<stale, expiration>>)
       ELSE /\ pc' = "failed"
            /\ ev' = Event("init", "-", "-", "-", "AssertionError",
                           <<stale, expiration>>)
            /\ UNCHANGED <<stale_interval, expiration_interval, time_getter>>
    /\ UNCHANGED <<store, cache_failures_interval, thr, monotonic,
                   custom_clock, reading, pending>>
    /\ UNCHANGED others

\* cache.shutdown()
Shutdown ==
    /\ pc = "idle"
    /\ ev' = Event("shutdown", "-", "-", "-", call_method("shutdown"), NoVal)
    /\ UNCHANGED <<store, config, thr, monotonic, custom_clock, pc, reading,
                   pending>>
    /\ UNCHANGED others

\* a caller runs with silence_excs(KeyError): body (use = "with") or calls
\* a function decorated with @silence_excs(KeyError) (use = "decorated");
\* body is what the body does.  The event keeps it in res.
Silenced(use, body) ==
    /\ pc = "idle"
    /\ ev' = Event(use, "-", "-", body, silence_excs(body), NoVal)
    /\ UNCHANGED <<store, config, thr, monotonic, custom_clock, pc, reading,
                   pending>>
    /\ UNCHANGED others

NextLife ==
    \/ \E stale \in 0..MaxInterval, expiration \in 0..MaxInterval,
          getter \in {"monotonic", "custom"} :
          Construct(stale, expiration, getter)
    \/ Shutdown
    \/ \E use \in {"with", "decorated"}, body \in BodyOutcomes :
          Silenced(use, body)
    \/ Next

SpecLife == InitNew /\ [][NextLife]_vars

(* ------------- __setitem__ and the KeyError branch by statement -------- *)
\* CacheDict takes no lock: the threads of the executor run __setitem__ and
\* the except KeyError branch of on_done_callback statement by statement,
\* in any order.  A thread record keeps the operation, the statement it is
\* at, its key, the value it writes, the timestamp it wrote and the exception
\* it ended with.
InitConc ==
    /\ \E began \in {NoVal, "v1"} :
          /\ data = [k \in Keys |-> IF k = "k1" THEN began ELSE NoVal]
          /\ timestamp_data = [k \in Keys |->
                                 IF k = "k1" /\ began # NoVal THEN 0 ELSE NoTs]
    /\ cache_missed = {}
    /\ init_assert(stale_interval_arg, expiration_interval_arg)
    /\ stale_interval = stale_interval_arg
    /\ expiration_interval = expiration_interval_arg
    /\ cache_failures_interval \in {None, failures_interval}
    /\ time_getter = "monotonic"
    /\ monotonic = 0
    /\ custom_clock = 0
    /\ pc = "idle"
    /\ reading = Idle
    /\ pending = [k \in Keys |-> 0]
    /\ ev = Event("init", "-", "-", "-", "none", NoVal)
    /\ thr = [t \in Threads |-> Resting]
    /\ OthersIdle

ConcFixed == <<config, custom_clock, pc, reading, pending, ev, others>>

At(t, op, at) == thr[t].op = op /\ thr[t].at = at

Goto(t, at) == thr' = [thr EXCEPT ![t].at = at]

Finish(t, exc) == thr' = [thr EXCEPT ![t].at = "done", ![t].exc = exc]

\* where the thread goes when try_delete has silenced a KeyError:
\* _on_failure and its test of self.cache_failures
AfterTryDelete(t) ==
    IF cache_failures THEN Goto(t, "fail_del") ELSE Finish(t, "none")

\* a thread enters self[key] = value: cache[key] = value of a caller or the
\* else branch of on_done_callback
BeginSet(t, key, value) ==
    /\ thr[t].at = "rest"
    /\ thr' = [thr EXCEPT ![t] = [op |-> "setitem", at |-> "set_data",
                                  key |-> key, val |-> value, ts |-> NoTs,
                                  exc |-> "none"]]
    /\ UNCHANGED <<store, monotonic, ConcFixed>>

\* a thread enters the except KeyError branch of on_done_callback
BeginNotFound(t, key) ==
    /\ thr[t].at = "rest"
    /\ thr' = [thr EXCEPT ![t] = [op |-> "notfound", at |-> "del_data",
                                  key |-> key, val |-> NoVal, ts |-> NoTs,
                                  exc |-> "none"]]
    /\ UNCHANGED <<store, monotonic, ConcFixed>>

\* __setitem__: self.data[key] = value
SetData(t) ==
    /\ At(t, "setitem", "set_data")
    /\ data' = [data EXCEPT ![thr[t].key] = thr[t].val]
    /\ Goto(t, "set_ts")
    /\ UNCHANGED <<timestamp_data, cache_missed, monotonic, ConcFixed>>

\* __setitem__: self.timestamp_data[key] = self.time_getter()
SetTimestamp(t) ==
    /\ At(t, "setitem", "set_ts")
    /\ timestamp_data' = [timestamp_data EXCEPT ![thr[t].key] = now_getter]
    /\ thr' = [thr EXCEPT ![t].at = "set_miss", ![t].ts = now_getter]
    /\ UNCHANGED <<data, cache_missed, monotonic, ConcFixed>>

\* __setitem__: with silence_excs(KeyError): self.cache_missed.remove(key)
SetRemoveMiss(t) ==
    /\ At(t, "setitem", "set_miss")
    /\ cache_missed' = cache_missed \ {thr[t].key}
    /\ Finish(t, silence_excs(IF thr[t].key \in cache_missed
                              THEN "none" ELSE "KeyError"))
    /\ UNCHANGED <<data, timestamp_data, monotonic, ConcFixed>>

\* try_delete, __delitem__: del self.data[key]
DelData(t) ==
    /\ At(t, "notfound", "del_data")
    /\ IF data[thr[t].key] = NoVal
       THEN /\ AfterTryDelete(t)
            /\ UNCHANGED data
       ELSE /\ data' = [data EXCEPT ![thr[t].key] = NoVal]
            /\ Goto(t, "del_ts")
    /\ UNCHANGED <<timestamp_data, cache_missed, monotonic, ConcFixed>>

\* try_delete, __delitem__: del self.timestamp_data[key]
DelTimestamp(t) ==
    /\ At(t, "notfound", "del_ts")
    /\ IF timestamp_data[thr[t].key] = NoTs
       THEN /\ AfterTryDelete(t)
            /\ UNCHANGED timestamp_data
       ELSE /\ timestamp_data' = [timestamp_data EXCEPT ![thr[t].key] = NoTs]
            /\ Goto(t, "del_miss")
    /\ UNCHANGED <<data, cache_missed, monotonic, ConcFixed>>

\* try_delete, __delitem__: with silence_excs(KeyError):
\* self.cache_missed.remove(key), and the exit of the decorator of
\* try_delete
DelRemoveMiss(t) ==
    /\ At(t, "notfound", "del_miss")
    /\ cache_missed' = cache_missed \ {thr[t].key}
    /\ Finish(t, silence_excs(silence_excs(IF thr[t].key \in cache_missed
                                           THEN "none" ELSE "KeyError")))
    /\ UNCHANGED <<data, timestamp_data, monotonic, ConcFixed>>

\* _on_failure: with silence_excs(KeyError): del self.data[key]
FailDelData(t) ==
    /\ At(t, "notfound", "fail_del")
    /\ IF data[thr[t].key] = NoVal
       THEN /\ Goto(t, "fail_add")
            /\ UNCHANGED data
       ELSE /\ data' = [data EXCEPT ![thr[t].key] = NoVal]
            /\ Finish(t, silence_excs("none"))
    /\ UNCHANGED <<timestamp_data, cache_missed, monotonic, ConcFixed>>

\* _on_failure: self.cache_missed.add(key)
FailAddMiss(t) ==
    /\ At(t, "notfound", "fail_add")
    /\ cache_missed' = cache_missed \cup {thr[t].key}
    /\ Goto(t, "fail_ts")
    /\ UNCHANGED <<data, timestamp_data, monotonic, ConcFixed>>

\* _on_failure: self.timestamp_data[key] = self.time_getter()
FailSetTimestamp(t) ==
    /\ At(t, "notfound", "fail_ts")
    /\ timestamp_data' = [timestamp_data EXCEPT ![thr[t].key] = now_getter]
    /\ thr' = [thr EXCEPT ![t].at = "done", ![t].ts = now_getter]
    /\ UNCHANGED <<data, cache_missed, monotonic, ConcFixed>>

\* a thread enters cache[key]
BeginGet(t, key) ==
    /\ thr[t].at = "rest"
    /\ thr' = [thr EXCEPT ![t] = [op |-> "getitem", at |-> "get_check",
                                  key |-> key, val |-> NoVal, ts |-> NoTs,
                                  exc |-> "none"]]
    /\ UNCHANGED <<store, monotonic, ConcFixed>>

\* __getitem__: if key not in self.data and key not in self.cache_missed:
\* return self.get_value_block(key).  The thread is followed up to the call
\* of get_value_block (at "fetch").
GetCheck(t) ==
    /\ At(t, "getitem", "get_check")
    /\ IF data[thr[t].key] = NoVal /\ thr[t].key \notin cache_missed
       THEN Goto(t, "fetch")
       ELSE Goto(t, "get_classify")
    /\ UNCHANGED <<store, monotonic, ConcFixed>>

\* __getitem__ from timestamp = self.timestamp_data[key] to the call of
\* get_value_block, the raise or schedule_a_fetch.  A raised KeyError keeps
\* its argument in val: the key for a failed lookup, 'Cached a miss' for the
\* raise of line 129.
GetClassify(t) ==
    /\ At(t, "getitem", "get_classify")
    /\ LET key == thr[t].key
           b == getitem_after_check(Cur, key, monotonic)
       IN  CASE b = "NO_TIMESTAMP" ->
                  /\ thr' = [thr EXCEPT ![t].at = "done",
                                        ![t].exc = "KeyError", ![t].val = key]
                  /\ UNCHANGED pending
             [] b = "NO_INTERVAL" ->
                  /\ Finish(t, "TypeError")
                  /\ UNCHANGED pending
             [] b = "CACHED_MISS" ->
                  /\ thr' = [thr EXCEPT ![t].at = "done",
                                        ![t].exc = "KeyError",
                                        ![t].val = "Cached a miss"]
                  /\ UNCHANGED pending
             [] b \in {"MISS_RETRY", "EXPIRED"} ->
                  /\ Goto(t, "fetch")
                  /\ UNCHANGED pending
             [] b = "STALE" ->
                  /\ NumPending < MaxPending
                  /\ pending' = [pending EXCEPT ![key] = @ + 1]
                  /\ thr' = [thr EXCEPT ![t].at = "get_return",
                                        ![t].ts = timestamp_data[key]]
             [] b = "FRESH" ->
                  /\ thr' = [thr EXCEPT ![t].at = "get_return",
                                        ![t].ts = timestamp_data[key]]
                  /\ UNCHANGED pending
    /\ UNCHANGED <<store, monotonic, config, custom_clock, pc, reading, ev>>
    /\ UNCHANGED others

\* __getitem__: return self.data[key]
GetReturn(t) ==
    /\ At(t, "getitem", "get_return")
    /\ IF data[thr[t].key] = NoVal
       THEN thr' = [thr EXCEPT ![t].at = "done", ![t].exc = "KeyError",
                               ![t].val = thr[t].key]
       ELSE thr' = [thr EXCEPT ![t].at = "done", ![t].val = data[thr[t].key]]
    /\ UNCHANGED <<store, monotonic, ConcFixed>>

\* time.monotonic() moves on between two statements
TickConc ==
    /\ monotonic < MaxTime
    /\ monotonic' = monotonic + 1
    /\ UNCHANGED <<store, thr, ConcFixed>>

NextConc ==
    \/ \E t \in Threads, key \in Keys, value \in Values :
          BeginSet(t, key, value)
    \/ \E t \in Threads, key \in Keys : BeginNotFound(t, key)
    \/ \E t \in Threads : SetData(t)
    \/ \E t \in Threads : SetTimestamp(t)
    \/ \E t \in Threads : SetRemoveMiss(t)
    \/ \E t \in Threads : DelData(t)
    \/ \E t \in Threads : DelTimestamp(t)
    \/ \E t \in Threads : DelRemoveMiss(t)
    \/ \E t \in Threads : FailDelData(t)
    \/ \E t \in Threads : FailAddMiss(t)
    \/ \E t \in Threads : FailSetTimestamp(t)
    \/ \E t \in Threads, key \in Keys : BeginGet(t, key)
    \/ \E t \in Threads : GetCheck(t)
    \/ \E t \in Threads : GetClassify(t)
    \/ \E t \in Threads : GetReturn(t)
    \/ TickConc

SpecConc == InitConc /\ [][NextConc]_vars

(* ----------------------------- IDAllocator ---------------------------- *)
\* allocate_int extends the bound by 10 when no int is free
ExtendBy == 10

\* the values of start_at under study
StartAts == {0, 2}

\* the ints a caller passes to mark_as_free and mark_as_allocated
Ints == 0..MaxInt

\* the allocator as a record
Alloc(allocated, free, bnd) ==
    [allocated |-> allocated, free |-> free, bound |-> bnd]
CurAlloc == Alloc(ints_allocated, free_ints, bound)

\* IDAllocator._extend_the_bound_to
extend_the_bound_to(a, x) ==
    Alloc(a.allocated, a.free \cup (a.bound..(x - 1)), x)

\* IDAllocator.mark_as_free
mark_as_free(a, start, x) ==
    IF x < start
    THEN [a |-> a, exc |-> "ValueError"]
    ELSE IF (x - start) \notin a.allocated
         THEN [a |-> a, exc |-> "ValueError"]
         ELSE [a   |-> Alloc(a.allocated \ {x - start},
                             a.free \cup {x - start}, a.bound),
               exc |-> "none"]

\* the allocator when allocate_int reaches self.free_ints.pop()
allocate_int_extended(a) ==
    IF a.free = {} THEN extend_the_bound_to(a, a.bound + ExtendBy) ELSE a

\* IDAllocator.allocate_int, where x is the element free_ints.pop() gives
allocate_int(a, start, x) ==
    LET e == allocate_int_extended(a)
    IN  [a   |-> Alloc(e.allocated \cup {x}, e.free \ {x}, e.bound),
         ret |-> x + start]

\* mark_as_allocated without the self.free_ints.remove(x)
mark_as_allocated_keeps_free(a, start, x) ==
    IF x < start
    THEN [a |-> a, exc |-> "ValueError"]
    ELSE LET y == x - start
         IN  IF y >= a.bound
             THEN LET e == extend_the_bound_to(a, y + 1)
                  IN  [a   |-> Alloc(e.allocated \cup {y}, e.free, e.bound),
                       exc |-> "none"]
             ELSE IF y \in a.allocated
                  THEN [a |-> a, exc |-> "AlreadyAllocated"]
                  ELSE [a   |-> Alloc(a.allocated \cup {y}, a.free, a.bound),
                        exc |-> "none"]

\* IDAllocator.mark_as_allocated
mark_as_allocated(a, start, x) ==
    IF x < start
    THEN [a |-> a, exc |-> "ValueError"]
    ELSE LET y == x - start
         IN  IF y >= a.bound
             THEN LET e == extend_the_bound_to(a, y + 1)
                  IN  [a   |-> Alloc(e.allocated \cup {y}, e.free \ {y},
                                     e.bound),
                       exc |-> "none"]
             ELSE IF y \in a.allocated
                  THEN [a |-> a, exc |-> "AlreadyAllocated"]
                  ELSE IF y \notin a.free
                       THEN [a |-> a, exc |-> "KeyError"]
                       ELSE [a   |-> Alloc(a.allocated \cup {y},
                                           a.free \ {y}, a.bound),
                             exc |-> "none"]

InstallAlloc(a) ==
    /\ ints_allocated' = a.allocated
    /\ free_ints' = a.free
    /\ bound' = a.bound

\* the cache of Init with the defaults of the constructor, left alone
CacheIdle ==
    /\ data = [k \in Keys |-> NoVal]
    /\ timestamp_data = [k \in Keys |-> NoTs]
    /\ cache_missed = {}
    /\ stale_interval = stale_interval_arg
    /\ expiration_interval = expiration_interval_arg
    /\ cache_failures_interval = None
    /\ time_getter = "monotonic"
    /\ monotonic = 0
    /\ custom_clock = 0
    /\ pc = "idle"
    /\ reading = Idle
    /\ pending = [k \in Keys |-> 0]
    /\ ev = Event("init", "-", "-", "-", "none", NoVal)
    /\ thr = [t \in Threads |-> Resting]

\* IDAllocator(start_at)
InitIDA ==
    /\ start_at \in StartAts
    /\ ints_allocated = {}
    /\ free_ints = {}
    /\ bound = 0
    /\ held = {}
    /\ ida_ev = [op |-> "init", ret |-> None, exc |-> "none"]
    /\ CacheIdle
    /\ ITTIdle
    /\ LFIdle

\* allocator.allocate_int(), under the monitor lock: one step.  The bound
\* is extended only as far as MaxInt + 1.
AllocateInt ==
    /\ free_ints # {} \/ bound + ExtendBy <= MaxInt + 1
    /\ \E x \in allocate_int_extended(CurAlloc).free :
          LET r == allocate_int(CurAlloc, start_at, x)
          IN  /\ InstallAlloc(r.a)
              /\ held' = held \cup {r.ret}
              /\ ida_ev' = [op |-> "allocate_int", ret |-> r.ret,
                            exc |-> "none"]
    /\ UNCHANGED <<start_at, cache_vars, itt_vars, lf_vars>>

\* allocator.mark_as_free(x), under the monitor lock
MarkAsFree(x) ==
    /\ LET r == mark_as_free(CurAlloc, start_at, x)
       IN  /\ InstallAlloc(r.a)
           /\ held' = IF r.exc = "none" THEN held \ {x} ELSE held
           /\ ida_ev' = [op |-> "mark_as_free", ret |-> None, exc |-> r.exc]
    /\ UNCHANGED <<start_at, cache_vars, itt_vars, lf_vars>>

\* allocator.mark_as_allocated(x), under the monitor lock
MarkAsAllocated(x) ==
    /\ LET r == mark_as_allocated(CurAlloc, start_at, x)
       IN  /\ InstallAlloc(r.a)
           /\ held' = IF r.exc = "none" THEN held \cup {x} ELSE held
           /\ ida_ev' = [op |-> "mark_as_allocated", ret |-> None,
                         exc |-> r.exc]
    /\ UNCHANGED <<start_at, cache_vars, itt_vars, lf_vars>>

NextIDA ==
    \/ AllocateInt
    \/ \E x \in Ints : MarkAsFree(x)
    \/ \E x \in Ints : MarkAsAllocated(x)

SpecIDA == InitIDA /\ [][NextIDA]_vars

(* ---------------------- IntervalTerminableThread ---------------------- *)
\* IntervalTerminableThread(seconds=3)
seconds == 3

\* safe_sleep(interval, wake_up_each=2)
wake_up_each == 2

\* min of safe_sleep
min(a, b) == IF a < b THEN a ELSE b

\* the thread is at position at of run()
IttAt(at) == itt_pc = at
IttGoto(at) == itt_pc' = at

\* IntervalTerminableThread(seconds), not started
InitITT ==
    /\ ITTIdle
    /\ CacheIdle
    /\ IDAIdle
    /\ LFIdle

\* thread.start(): run() begins in the new thread
StartThread ==
    /\ IttAt("created")
    /\ IttGoto("prepare")
    /\ UNCHANGED <<terminating, slept, time_to_sleep, cleanup_calls, loops,
                   cache_vars, ida_vars, lf_vars>>

\* run: self.prepare()
Prepare ==
    /\ IttAt("prepare")
    /\ IttGoto("while")
    /\ UNCHANGED <<terminating, slept, time_to_sleep, cleanup_calls, loops,
                   cache_vars, ida_vars, lf_vars>>

\* run: while not self._terminating; after the loop, self.cleanup()
WhileTest ==
    /\ IttAt("while")
    /\ IF terminating THEN IttGoto("cleanup") ELSE IttGoto("loop")
    /\ UNCHANGED <<terminating, slept, time_to_sleep, cleanup_calls, loops,
                   cache_vars, ida_vars, lf_vars>>

\* run: with measure() as measurement: self.loop(), which takes time_taken;
\* time_to_sleep = self.seconds - time_taken
Loop(time_taken) ==
    /\ IttAt("loop")
    /\ loops < MaxLoops
    /\ loops' = loops + 1
    /\ time_to_sleep' = seconds - time_taken
    /\ IttGoto("measured")
    /\ UNCHANGED <<terminating, slept, cleanup_calls, cache_vars, ida_vars,
                   lf_vars>>

\* run: if time_to_sleep < 0: self.on_overrun(time_taken), else the call of
\* self.safe_sleep(time_to_sleep) with its t = 0
Measured ==
    /\ IttAt("measured")
    /\ IF time_to_sleep < 0
       THEN /\ IttGoto("while")
            /\ UNCHANGED slept
       ELSE /\ IttGoto("safe_sleep")
            /\ slept' = 0
    /\ UNCHANGED <<terminating, time_to_sleep, cleanup_calls, loops,
                   cache_vars, ida_vars, lf_vars>>

\* safe_sleep: while t < interval and not self._terminating
SleepTest ==
    /\ IttAt("safe_sleep")
    /\ IF slept < time_to_sleep /\ ~terminating
       THEN IttGoto("sleep")
       ELSE IttGoto("sleep_end")
    /\ UNCHANGED <<terminating, slept, time_to_sleep, cleanup_calls, loops,
                   cache_vars, ida_vars, lf_vars>>

\* safe_sleep: time.sleep(remaining_to_sleep); t += remaining_to_sleep
Sleep ==
    /\ IttAt("sleep")
    /\ slept' = slept + min(time_to_sleep - slept, wake_up_each)
    /\ IttGoto("safe_sleep")
    /\ UNCHANGED <<terminating, time_to_sleep, cleanup_calls, loops,
                   cache_vars, ida_vars, lf_vars>>

\* safe_sleep: if self._terminating: raise SystemExit().  run() has no
\* handler for it: the exception leaves run() and ends the thread.
SleepEnd ==
    /\ IttAt("sleep_end")
    /\ IF terminating THEN IttGoto("exited") ELSE IttGoto("while")
    /\ UNCHANGED <<terminating, slept, time_to_sleep, cleanup_calls, loops,
                   cache_vars, ida_vars, lf_vars>>

\* run: self.cleanup(), and run() returns
Cleanup ==
    /\ IttAt("cleanup")
    /\ cleanup_calls' = cleanup_calls + 1
    /\ IttGoto("finished")
    /\ UNCHANGED <<terminating, slept, time_to_sleep, loops, cache_vars,
                   ida_vars, lf_vars>>

\* another thread calls thread.terminate() (force=False)
Terminate ==
    /\ ~terminating
    /\ ~IttAt("created")
    /\ terminating' = TRUE
    /\ UNCHANGED <<itt_pc, slept, time_to_sleep, cleanup_calls, loops,
                   cache_vars, ida_vars, lf_vars>>

NextITT ==
    \/ StartThread
    \/ Prepare
    \/ WhileTest
    \/ \E time_taken \in 0..MaxTaken : Loop(time_taken)
    \/ Measured
    \/ SleepTest
    \/ Sleep
    \/ SleepEnd
    \/ Cleanup
    \/ Terminate

SpecITT == InitITT /\ [][NextITT]_vars

(* --------------------------- LinkfailMetric --------------------------- *)
\* LinkfailMetric(..., consecutive_failures_to_offline=2,
\* consecutive_successes_to_online=3)
consecutive_failures_to_offline == 2
consecutive_successes_to_online == 3

\* the metric as a record
Link(w, f, u) == [working |-> w, failures |-> f, successes |-> u]
CurLink == Link(working, consecutive_failures, consecutive_successes)

\* _handle whose success branch leaves consecutive_failures as it is
handle_keeps_failures(l, success, address) ==
    IF success
    THEN LET u == [l.successes EXCEPT ![address] = @ + 1]
         IN  IF ~l.working[address]
                /\ u[address] = consecutive_successes_to_online
             THEN [l |-> Link([l.working EXCEPT ![address] = TRUE],
                              l.failures, u),
                   callback |-> "online"]
             ELSE [l |-> Link(l.working, l.failures, u), callback |-> "none"]
    ELSE LET f == [l.failures EXCEPT ![address] = @ + 1]
             u == [l.successes EXCEPT ![address] = 0]
         IN  IF l.working[address]
                /\ f[address] = consecutive_failures_to_offline
             THEN [l |-> Link([l.working EXCEPT ![address] = FALSE], f, u),
                   callback |-> "offline"]
             ELSE [l |-> Link(l.working, f, u), callback |-> "none"]

\* LinkfailMetric._handle without embedded submetrics and labels: callback
\* is the callback it invokes, if any
handle(l, success, address) ==
    IF success
    THEN LET f == [l.failures EXCEPT ![address] = 0]
             u == [l.successes EXCEPT ![address] = @ + 1]
         IN  IF ~l.working[address]
                /\ u[address] = consecutive_successes_to_online
             THEN [l |-> Link([l.working EXCEPT ![address] = TRUE], f, u),
                   callback |-> "online"]
             ELSE [l |-> Link(l.working, f, u), callback |-> "none"]
    ELSE LET f == [l.failures EXCEPT ![address] = @ + 1]
             u == [l.successes EXCEPT ![address] = 0]
         IN  IF l.working[address]
                /\ f[address] = consecutive_failures_to_offline
             THEN [l |-> Link([l.working EXCEPT ![address] = FALSE], f, u),
                   callback |-> "offline"]
             ELSE [l |-> Link(l.working, f, u), callback |-> "none"]

\* LinkfailMetric(...)
InitLF ==
    /\ LFIdle
    /\ CacheIdle
    /\ IDAIdle
    /\ ITTIdle

\* metric.runtime(success, address=address): one report
Report(success, address) ==
    /\ Len(history[address]) < MaxReports
    /\ LET r == handle(CurLink, success, address)
       IN  /\ working' = r.l.working
           /\ consecutive_failures' = r.l.failures
           /\ consecutive_successes' = r.l.successes
           /\ lf_ev' = [address |-> address, success |-> success,
                        callback |-> r.callback]
    /\ history' = [history EXCEPT ![address] = Append(@, success)]
    /\ UNCHANGED <<cache_vars, ida_vars, itt_vars>>

NextLF == \E success \in BOOLEAN, address \in Addresses :
              Report(success, address)

SpecLF == InitLF /\ [][NextLF]_vars

(* ----------------------------- properties ----------------------------- *)
HasEntry(k) == data[k] # NoVal
HasMiss(k) == k \in cache_missed

\* the age __getitem__ computes for k: time.monotonic() less the stored
\* timestamp
Age(k) == monotonic - timestamp_data[k]

\* this step is the first step of a read of k
ReadOf(k) == ev'.op = "getitem" /\ ev'.key = k

\* C1: no key has both a cached entry (key in data) and a negative record
\* (key in cache_missed), whatever operations and background completions
\* have run.
C1_EntryXorMiss == \A k \in Keys : ~(HasEntry(k) /\ HasMiss(k))

\* a set has just replaced a negative record by an entry
C1_Witness ==
    /\ ev.op = "setitem"
    /\ ev.exc = "TypeError"
    /\ HasEntry(ev.key)
    /\ ~HasMiss(ev.key)

\* C2: a read of a key with an entry of age a (time.monotonic() as the read
\* takes it, less the stored timestamp) is served at once with no fetch when
\* a <= stale_interval, dispatches a background fetch without blocking
\* when stale_interval < a <= expiration_interval, and blocks in a fetch of
\* its own when a > expiration_interval.
C2_Classification ==
    [][\A k \in Keys :
         (ReadOf(k) /\ HasEntry(k) /\ ~HasMiss(k)
            /\ timestamp_data[k] # NoTs) =>
           /\ (Age(k) <= stale_interval) =>
                 /\ pc' = "idle"
                 /\ ev'.exc = "none"
                 /\ ev'.val = data[k]
                 /\ InFlight' = InFlight
           /\ (stale_interval < Age(k) /\ Age(k) <= expiration_interval) =>
                 /\ pc' = "stale"
                 /\ pending' = [pending EXCEPT ![k] = @ + 1]
                 /\ InFlight' = InFlight + 1
           /\ (Age(k) > expiration_interval) =>
                 /\ pc' = "blocked"
                 /\ pending' = pending
                 /\ InFlight' = InFlight + 1]_vars

\* a read at age == expiration_interval has dispatched a background fetch
C2_Witness ==
    /\ ev.op = "getitem"
    /\ pc = "stale"
    /\ Age(ev.key) = expiration_interval
    /\ pending[ev.key] = 1

\* C3: a read of a key whose entry is fresh submits no fetch and changes
\* nothing in the store: no value, no timestamp, no negative record.
C3_FreshReadNoEffect ==
    [][\A k \in Keys :
         (ReadOf(k) /\ HasEntry(k) /\ ~HasMiss(k)
            /\ timestamp_data[k] # NoTs /\ Age(k) <= stale_interval) =>
           /\ InFlight' = InFlight
           /\ pending' = pending
           /\ pc' = "idle"
           /\ data' = data
           /\ timestamp_data' = timestamp_data
           /\ cache_missed' = cache_missed]_vars

\* a fresh read at age == stale_interval, the other key holding a negative
\* record
C3_Witness ==
    /\ ev.op = "getitem"
    /\ ev.exc = "none"
    /\ pc = "idle"
    /\ Age(ev.key) = stale_interval
    /\ \E k \in Keys \ {ev.key} : HasMiss(k)

\* the branch a read of k would take in this state
BranchNow(k) == getitem_branch(Cur, k, monotonic)

\* C4: a read of a stale key submits exactly one fetch for that key and
\* does not wait for it, and it returns the value that was stored when the
\* read began.
C4_StaleReadReturnsOld ==
    [][/\ \A k \in Keys :
            (ReadOf(k) /\ HasEntry(k) /\ ~HasMiss(k)
               /\ timestamp_data[k] # NoTs
               /\ stale_interval < Age(k)
               /\ Age(k) <= expiration_interval) =>
              /\ pc' = "stale"
              /\ pending' = [pending EXCEPT ![k] = @ + 1]
       /\ (pc = "stale" /\ ev'.op = "return") =>
              /\ ev'.exc = "none"
              /\ ev'.val = reading.began]_vars

\* C5: when the background fetch of a stale read has completed with a
\* value, the store holds that value with the clock value at completion as
\* its timestamp, and a read of the key issued then is served that value
\* from the store.
C5_RefreshedValueServed ==
    (ev.op = "on_done_callback" /\ ev.res \in Values) =>
        /\ data[ev.key] = ev.res
        /\ timestamp_data[ev.key] = now_getter
        /\ ~HasMiss(ev.key)
        /\ BranchNow(ev.key) \in {"FRESH", "STALE"}

\* C6: a read of a key that is expired or has neither entry nor negative
\* record blocks in the fetch it submits; when that fetch returns v, the
\* read returns v and the store holds (v, clock value at that moment).
C6_BlockingReadInstalls ==
    [][/\ \A k \in Keys :
            (ReadOf(k) /\ ~HasMiss(k)
               /\ (HasEntry(k) => (/\ timestamp_data[k] # NoTs
                                   /\ Age(k) > expiration_interval))) =>
              /\ pc' = "blocked"
              /\ InFlight' = InFlight + 1
       /\ (pc = "blocked" /\ pc' # "blocked") => ev'.op = "result"
       /\ (/\ ev'.op = "result"
           /\ ev'.branch \in {"EXPIRED", "MISSING"}
           /\ ev'.res \in Values) =>
              /\ ev'.exc = "none"
              /\ ev'.val = ev'.res
              /\ data'[ev'.key] = ev'.res
              /\ timestamp_data'[ev'.key] = now_getter'
              /\ ev'.key \notin cache_missed']_vars

\* C7: with cache_failures_interval set, a read whose fetch raises KeyError
\* fails with KeyError and leaves the key without entry and with a negative
\* record stamped with the clock value at the failure, whether the key was
\* expired, missing or held an out-of-date negative record.
C7_FailedReadCachesMiss ==
    (ev.op = "result" /\ ev.res = "KeyError" /\ cache_failures) =>
        /\ ev.exc = "KeyError"
        /\ ~HasEntry(ev.key)
        /\ HasMiss(ev.key)
        /\ timestamp_data[ev.key] = now_getter

\* C8: with cache_failures_interval = F set, once a fetch for k has raised
\* KeyError a read of k at that moment is a cached miss; a read of a key
\* with a negative record of age <= F raises KeyError and submits nothing,
\* and one of age > F submits a fetch.  The first part is stated for the
\* default time_getter, where the failure and the read are timed by one
\* clock.
C8_NegativeRoundTrip ==
    [][/\ (/\ ev'.op \in {"result", "on_done_callback"}
           /\ ev'.res = "KeyError"
           /\ time_getter = "monotonic"
           /\ cache_failures) =>
              getitem_branch(Store(data', timestamp_data', cache_missed'),
                             ev'.key, monotonic') = "CACHED_MISS"
       /\ \A k \in Keys :
            (ReadOf(k) /\ HasMiss(k) /\ cache_failures
               /\ timestamp_data[k] # NoTs) =>
              /\ (Age(k) <= cache_failures_interval) =>
                    /\ ev'.exc = "KeyError"
                    /\ pc' = "idle"
                    /\ InFlight' = InFlight
              /\ (Age(k) > cache_failures_interval) =>
                    /\ pc' = "blocked"
                    /\ InFlight' = InFlight + 1]_vars

\* C9: with cache_failures_interval unset, cache_missed stays empty, a
\* fetch that raises KeyError leaves the key without entry, and a read of a
\* key without entry submits a fetch.
C9_FailuresNotCached ==
    [][~cache_failures =>
         /\ cache_missed' = {}
         /\ (ev'.op \in {"result", "on_done_callback"}
               /\ ev'.res = "KeyError") => data'[ev'.key] = NoVal
         /\ \A k \in Keys :
              (ReadOf(k) /\ ~HasEntry(k)) =>
                 /\ pc' = "blocked"
                 /\ InFlight' = InFlight + 1]_vars

\* a read of an expired key has failed on KeyError with failures not
\* cached: the entry is gone and the next read will fetch
C9_Witness ==
    /\ ~cache_failures
    /\ ev.op = "result"
    /\ ev.res = "KeyError"
    /\ ev.branch = "EXPIRED"
    /\ ~HasEntry(ev.key)
    /\ BranchNow(ev.key) = "MISSING"

\* C10: cache[k] = v succeeds whatever k held before; afterwards k has the
\* entry v stamped with the current time and no negative record, and a read
\* of k issued then returns v without a fetch.  Stated for the default
\* time_getter.
C10_SetThenGet ==
    (ev.op = "setitem" /\ time_getter = "monotonic") =>
        /\ ev.exc = "none"
        /\ data[ev.key] = ev.val
        /\ timestamp_data[ev.key] = now_getter
        /\ ~HasMiss(ev.key)
        /\ BranchNow(ev.key) = "FRESH"

\* C11: del cache[k] on a key without entry raises nothing and leaves the
\* store as it was, and neither cache[k] = v nor del cache[k] ever raises.
C11_SetDeleteNeverRaise ==
    [][/\ \A k \in Keys :
            (ev'.op = "delitem" /\ ev'.key = k /\ ~HasEntry(k)) =>
              /\ ev'.exc = "none"
              /\ data' = data
              /\ timestamp_data' = timestamp_data
              /\ cache_missed' = cache_missed
       /\ (ev'.op \in {"setitem", "delitem"}) => ev'.exc = "none"]_vars

\* C12: once del cache[k] is over, k has neither entry nor negative record,
\* also when k held only a negative record before, so that a read of k then
\* submits a fetch.
C12_DeleteRemovesBoth ==
    (ev.op = "delitem") =>
        /\ ~HasEntry(ev.key)
        /\ ~HasMiss(ev.key)
        /\ BranchNow(ev.key) = "MISSING"

\* C13: CacheDict(stale, expiration, ...) fails and yields no cache when
\* stale > expiration, and succeeds, with the intervals as given, when
\* stale <= expiration, equality included.
C13_ConstructionValidated ==
    (ev.op = "init") =>
        IF ev.val[1] > ev.val[2]
        THEN /\ ev.exc = "AssertionError"
             /\ pc = "failed"
             /\ stale_interval = None
             /\ expiration_interval = None
        ELSE /\ ev.exc = "none"
             /\ pc = "idle"
             /\ stale_interval = ev.val[1]
             /\ expiration_interval = ev.val[2]

\* a construction with stale_interval > expiration_interval has failed
C13_Witness ==
    /\ ev.op = "init"
    /\ ev.val[1] > ev.val[2]
    /\ pc = "failed"

\* C14: len(cache) is the number of keys that have an entry and the keys the
\* cache enumerates are exactly those keys; a key that has only a negative
\* record is neither counted nor enumerated.
C14_SizeAndKeys ==
    /\ (ev.op = "len") =>
          /\ ev.val = Cardinality({k \in Keys : HasEntry(k)})
          /\ ev.val <= Cardinality(Keys \ {k \in Keys :
                                             HasMiss(k) /\ ~HasEntry(k)})
    /\ (ev.op = "iter") =>
          /\ ev.val = {k \in Keys : HasEntry(k)}
          /\ \A k \in Keys : (HasMiss(k) /\ ~HasEntry(k)) => k \notin ev.val

\* the size was taken while one key had an entry and another only a negative
\* record
C14_Witness ==
    /\ ev.op = "len"
    /\ ev.val = 1
    /\ \E k \in Keys : HasMiss(k) /\ ~HasEntry(k)

\* C15: when the fetch a blocked read waits for fails with an error other
\* than KeyError, the read raises that error and the store is as before: no
\* negative record appears, an expired entry and its timestamp stay, and the
\* key is read by a fetch again as far as it was before.
C15_OtherErrorPropagates ==
    [][(ev'.op = "result" /\ ev'.res = "OtherError") =>
          /\ ev'.exc = "OtherError"
          /\ data' = data
          /\ timestamp_data' = timestamp_data
          /\ cache_missed' = cache_missed
          /\ pc' = "idle"
          /\ (BranchNow(reading.key) \in BlockingBranches =>
                BranchNow(ev.key)' \in BlockingBranches)]_vars

\* a read of an expired entry has failed with another error; the entry is
\* still there and still expired
C15_Witness ==
    /\ ev.op = "result"
    /\ ev.res = "OtherError"
    /\ ev.exc = "OtherError"
    /\ ev.branch = "EXPIRED"
    /\ HasEntry(ev.key)
    /\ BranchNow(ev.key) = "EXPIRED"

\* C16: when a background refresh fails with an error other than KeyError,
\* entry, timestamp and negative state stay as they were, no caller is
\* affected, and the executor keeps its other fetches.
C16_BackgroundOtherError ==
    [][(ev'.op = "on_done_callback" /\ ev'.res = "OtherError") =>
          /\ data' = data
          /\ timestamp_data' = timestamp_data
          /\ cache_missed' = cache_missed
          /\ pc' = pc
          /\ reading' = reading
          /\ NumPending' = NumPending - 1
          /\ \A k \in Keys : k # ev'.key => pending'[k] = pending[k]]_vars

\* a background refresh has failed with another error; the entry is in place
\* and another fetch is still with the executor
C16_Witness ==
    /\ ev.op = "on_done_callback"
    /\ ev.res = "OtherError"
    /\ HasEntry(ev.key)
    /\ NumPending > 0

\* C17: with cache_failures_interval set, a background refresh that fails
\* with KeyError removes the entry and leaves a negative record stamped with
\* the time of the completion, so that a read within the interval raises
\* KeyError without a fetch.
C17_BackgroundNotFound ==
    (/\ cache_failures
     /\ ev.op = "on_done_callback"
     /\ ev.res = "KeyError") =>
        /\ ~HasEntry(ev.key)
        /\ HasMiss(ev.key)
        /\ timestamp_data[ev.key] = now_getter
        /\ (time_getter = "monotonic" => BranchNow(ev.key) = "CACHED_MISS")

\* C20: the cache has a shutdown() that returns, no fetch is handed to the
\* executor after it, and a read blocked at that time still gets its result.
C20_Shutdown ==
    [][/\ (ev'.op = "shutdown" => ev'.exc = "none")
       /\ (ev.op = "shutdown" => InFlight' <= InFlight)]_vars

\* no thread is inside an operation
Quiescent == \A t \in Threads : thr[t].at \in {"rest", "done"}

\* C18: whatever the order in which the statements of a self[k] = v and of a
\* KeyError completion for the same k run, once both are over k has at most
\* one of entry and negative record, and a timestamp exactly when it has one
\* of them.
C18_SetVersusNotFound ==
    \A k \in Keys :
        (/\ Quiescent
         /\ \E t, u \in Threads : /\ thr[t].op = "setitem"
                                  /\ thr[u].op = "notfound"
                                  /\ thr[t].key = k
                                  /\ thr[u].key = k) =>
            /\ ~(HasEntry(k) /\ HasMiss(k))
            /\ (timestamp_data[k] # NoTs) <=> (HasEntry(k) \/ HasMiss(k))

\* C19: when two self[k] = v of the same key have run concurrently, the value
\* and the timestamp k ends with were both written by the same one of them.
C19_SingleWriterPair ==
    \A k \in Keys :
        (/\ Quiescent
         /\ \A t \in Threads : thr[t].op = "setitem" /\ thr[t].key = k) =>
            \E t \in Threads : /\ data[k] = thr[t].val
                               /\ timestamp_data[k] = thr[t].ts

\* C21: a read never serves a stored value older than expiration_interval:
\* when cache[k] goes on to return self.data[k] (fresh, or stale with a
\* refresh scheduled), the age of the entry by the clock that stamped it is
\* at most expiration_interval; every other value a read returns comes from
\* the fetch the read waited for.
C21_NoExpiredValueServed ==
    [][/\ \A k \in Keys :
            (ReadOf(k) /\ ev'.exc \in {"none", "scheduled"}) =>
                now_getter - timestamp_data[k] <= expiration_interval
       /\ (ev'.op = "getitem" /\ ev'.exc \in {"none", "scheduled"}) =>
            ev'.branch \in {"FRESH", "STALE"}
       /\ (ev'.op = "getitem" /\ ev'.branch \in BlockingBranches) =>
            ev'.exc = "waiting"]_vars

\* C22: with a time_getter given to the constructor, the branch a read takes
\* is the one the age by that time_getter selects: the now of __getitem__
\* is read from the clock that wrote the timestamps.
C22_ReadUsesTimeGetter ==
    (ev.op = "getitem" /\ time_getter = "custom") =>
        ev.branch = getitem_branch(Cur, ev.key, now_getter)

\* C25: a stale read returns the value the key had when the read began,
\* whatever the refresh it scheduled does before the read returns: it does
\* not raise and does not return the refreshed value.
C25_StaleReadIsolated ==
    [][(ev'.op = "return") =>
          /\ ev'.exc = "none"
          /\ ev'.val = reading.began
          /\ ev'.val # NoVal]_vars

\* C28: between operations, the keys with a timestamp are exactly the keys
\* with an entry or a negative record.
C28_TimestampIffPresent ==
    \A k \in Keys :
        (timestamp_data[k] # NoTs) <=> (HasEntry(k) \/ HasMiss(k))

\* a delete has removed an entry together with its timestamp while another
\* key keeps a negative record and its timestamp
C28_Witness ==
    /\ ev.op = "delitem"
    /\ ~HasEntry(ev.key)
    /\ timestamp_data[ev.key] = NoTs
    /\ \E k \in Keys : HasMiss(k) /\ timestamp_data[k] # NoTs

\* C29: silence_excs(KeyError) lets a body that raises nothing end normally,
\* suppresses KeyError, lets any other exception through unchanged, and
\* raises nothing of its own.
C29_SilenceExcs ==
    (ev.op \in {"with", "decorated"}) =>
        ev.exc = (IF ev.res = "KeyError" THEN "none" ELSE ev.res)

\* C26: a read that calls get_value_block eventually returns or raises, given
\* that the executor runs its tasks and the value_getter terminates; a read
\* on the fresh, stale or cached-miss branch never waits for the executor.
C26_BlockingReadTerminates ==
    /\ [](pc = "blocked" => <>(pc = "idle"))
    /\ [][(ev'.op = "getitem"
             /\ ev'.branch \in {"FRESH", "STALE", "CACHED_MISS"}) =>
           pc' # "blocked"]_vars

\* a read of an expired entry is waiting in future.result()
C26_Witness ==
    /\ pc = "blocked"
    /\ reading.branch = "EXPIRED"
    /\ ev.exc = "waiting"

\* C27: a read raises KeyError only for a cached miss ('Cached a miss') or
\* because the fetch it waited for raised it: whatever a concurrent
\* KeyError completion does between the statements of cache[k], the read
\* returns a value or goes on to get_value_block, and does not raise because
\* the entry or its timestamp is gone at the lookup.
C27_ReadNeverFailsOnVanishedEntry ==
    \A t, u \in Threads :
        (/\ thr[t].op = "getitem"
         /\ thr[t].at = "done"
         /\ thr[u].op = "notfound"
         /\ thr[u].key = thr[t].key) =>
            \/ thr[t].exc = "none" /\ thr[t].val \in Values
            \/ thr[t].exc = "KeyError" /\ thr[t].val = "Cached a miss"

\* C23: allocate_int never returns an int a caller holds: an int returned by
\* allocate_int or claimed by mark_as_allocated is not returned again before
\* mark_as_free was called on it.
C23_NoDoubleAllocation ==
    [][(ida_ev'.op = "allocate_int") =>
          /\ ida_ev'.ret \notin held
          /\ ida_ev'.ret >= start_at]_vars

\* allocate_int has returned an int, which is now held with at least two
\* others, while free ints remain
C23_Witness ==
    /\ ida_ev.op = "allocate_int"
    /\ ida_ev.ret \in held
    /\ Cardinality(held) >= 3
    /\ free_ints # {}

\* C24: when an IntervalTerminableThread has ended after terminate() without
\* force, cleanup() was called exactly once, also when terminate() came while
\* the thread was in safe_sleep between two calls of loop().
C24_CleanupOnce ==
    (itt_pc \in {"finished", "exited"}) => cleanup_calls = 1

\* the number of reports equal to s at the end of h
RECURSIVE Run(_, _)
Run(h, s) ==
    IF h = <<>> \/ h[Len(h)] # s
    THEN 0
    ELSE 1 + Run(SubSeq(h, 1, Len(h) - 1), s)

\* C30: an address is online before its first report; a report turns it
\* offline only when it makes the run of failures reach
\* consecutive_failures_to_offline, and online again only when it makes the
\* run of successes reach consecutive_successes_to_online; callback_on_offline
\* and callback_on_online are invoked at exactly these reports; and the two
\* counters of an address are never both non-zero.
C30_LinkStatus ==
    [][\A a \in Addresses :
          /\ (history[a] = <<>>) => working[a]
          /\ (working[a] /\ ~working'[a]) =>
                /\ lf_ev'.address = a
                /\ ~lf_ev'.success
                /\ Run(history'[a], FALSE) = consecutive_failures_to_offline
          /\ (~working[a] /\ working'[a]) =>
                /\ lf_ev'.address = a
                /\ lf_ev'.success
                /\ Run(history'[a], TRUE) = consecutive_successes_to_online
          /\ (lf_ev'.address = a) =>
                /\ (lf_ev'.callback = "offline") <=>
                      (working[a] /\ ~working'[a])
                /\ (lf_ev'.callback = "online") <=>
                      (~working[a] /\ working'[a])
          /\ ~(consecutive_failures'[a] > 0 /\ consecutive_successes'[a] > 0)
      ]_vars

\* an address went offline and has just come back online
C30_Witness ==
    /\ lf_ev.callback = "online"
    /\ working[lf_ev.address]
    /\ Run(history[lf_ev.address], TRUE) = consecutive_successes_to_online
    /\ Len(history[lf_ev.address]) =
          consecutive_failures_to_offline + consecutive_successes_to_online

====
